---- MODULE Spec2Model ----
(***************************************************************************)
(* A model of rllte's prioritized replay storage                           *)
(* (rllte/xploit/storage/prioritized_replay_storage.py) and of the         *)
(* on-policy training loop (rllte/common/prototype/on_policy_agent.py).    *)
(*                                                                         *)
(* Priorities are small integers (1.0 is 1), probabilities and weights are  *)
(* fractions [num, den] with den > 0.  Exponents are kept integral by the  *)
(* choice of alpha, beta and step inputs, so every power is computed       *)
(* exactly.  annealing_beta is computed in binary floating point with      *)
(* round-to-nearest-even after every operation, on a significand of        *)
(* MantissaBits bits (binary64 has 53).                                    *)
(***************************************************************************)
EXTENDS Integers, Sequences, FiniteSets, TLC

\* ------------------------------------------------------------------ bounds
MaxStorageSize == 3     \* largest storage_size a storage is built with
MaxBatchSize == 2       \* largest batch_size a storage is built with
MaxAdds == 6            \* add() calls per behaviour (the cursor wraps around)
MaxTrainSteps == 8      \* largest num_train_steps train is called with
MaxEnvs == 2            \* largest num_envs
MaxSteps == 2           \* largest num_steps
MantissaBits == 3       \* bits of a floating point significand
MaxEvalEpisodes == 2    \* largest num_eval_episodes eval is called with
MaxEvalEnvs == 2        \* largest number of evaluation sub-environments
MaxEpisodeLen == 2      \* steps after which an evaluation episode has ended
MaxAdapterCalls == 7    \* reset and step calls on the environment adapter
MaxLives == 2           \* lives of the game under EpisodicLifeEnv
MaxLifeSteps == 3       \* step calls on EpisodicLifeEnv
MaxSkip == 3            \* SkipFrame's skip

\* Inputs of the model.
AlphaSet == {1, 2}                  \* alpha > 0 (line 40), integral
BetaSet == {[num |-> 0, den |-> 1]} \* annealed from 0 to 1 over storage_size steps
PriorityInputs == {-2, 0, 1}        \* signed priorities handed to update()
SampleSteps(size) == {0, size}      \* annealing_beta is 0 at the first, 1 at the second
PairCounts == {0, 1, 2}             \* lengths of the paired lists of one update() call
EvalIntervals == {1, 2}             \* eval_interval
SaveIntervals == {1, 2}             \* save_interval
Rewards == {0, 1}                   \* the reward an env.step returns
BasePatterns == {0, 1}              \* outputs of compute_returns_and_advantages
IrsPatterns == {0, 1}               \* outputs of compute_irs

VARIABLES
    \* PrioritizedReplayStorage fields (lines 38-45)
    storage_size, batch_size, alpha, beta, storage, priorities, position,
    \* the number of add() calls so far: the k-th inserted transition (k = 0, 1, ...)
    \* is modelled by its ordinal k
    inserted,
    \* the last call on the storage and its outcome
    call, ret

VARIABLES
    \* OnPolicyAgent.train: its arguments and the agent's configuration
    num_train_steps, num_envs, num_steps, eval_interval, save_interval,
    has_eval_env, has_irs, pretraining,
    \* train's position, its locals num_updates, update (the loop variable) and
    \* the number of ticks of the rollout loop done in this cycle
    pc, num_updates, update, tick,
    \* the agent's counters
    global_step, global_episode,
    \* obs and next_obs (observations are named by the number of env.step calls
    \* that preceded them; -1 is "not bound yet")
    obs, next_obs,
    \* the calls of storage.add in this cycle, each with the arguments it got
    \* (an action is named by the observation the policy chose it for)
    rollout,
    \* the rollout storage's advantages and returns, and what
    \* compute_returns_and_advantages and compute_irs produced in this cycle
    \* (computed.bootstrap is the observation the bootstrap value was taken of)
    advantages, returns, computed, intrinsic_rewards,
    \* the number of env.step calls, of eval calls and of save calls so far
    env_steps, evals, saves,
    \* the calls made since the first env.step of the current cycle, in order
    events,
    \* the number of env.reset calls, and whether env.close and eval_env.close
    \* have been called
    env_resets, env_closed, eval_env_closed,
    \* the calls on the intrinsic reward module, and the in-place addition, since
    \* the last compute_returns_and_advantages, each with the arguments it got
    irs_calls

VARIABLES
    \* OnPolicyAgent.eval: its position, its argument, the number of
    \* sub-environments of eval_env and the steps each has made in its episode
    eval_pc, num_eval_episodes, num_eval_envs, ep_len,
    \* eval's locals episode_rewards and episode_steps
    episode_rewards, episode_steps,
    \* the number of eval_env.reset and eval_env.step calls, and eval's outcome
    eval_resets, eval_env_steps, eval_ret

VARIABLES
    \* TorchVecEnvWrapper: self.current_obs (-1 is None), the number of calls made
    \* on it, the TimeStep its last call returned, and what the caller's
    \* destructuring of that TimeStep bound
    current_obs, adapter_calls, time_step, bound

adapterVars == <<current_obs, adapter_calls, time_step, bound>>

VARIABLES
    \* EpisodicLifeEnv: self.lives, self.was_real_done, the wrapped game's
    \* _life, the number of resets of the wrapped game, the number of step
    \* calls, and the last call with what it returned
    lives, was_real_done, game_life, inner_resets, life_steps, life_ret

lifeVars == <<lives, was_real_done, game_life, inner_resets, life_steps, life_ret>>

VARIABLES
    \* SkipFrame: self._skip, the position of step, the action it was called
    \* with, total_reward, the results of the inner steps it made, and what
    \* it returned
    skip, skip_pc, skip_action, total_reward, inner_steps, skip_ret

skipVars == <<skip, skip_pc, skip_action, total_reward, inner_steps, skip_ret>>

envVars == <<adapterVars, lifeVars, skipVars>>

evalVars == <<eval_pc, num_eval_episodes, num_eval_envs, ep_len, episode_rewards,
              episode_steps, eval_resets, eval_env_steps, eval_ret>>

storageVars == <<storage_size, batch_size, alpha, beta, storage, priorities,
                 position, inserted, call, ret>>

trainVars == <<num_train_steps, num_envs, num_steps, eval_interval, save_interval,
               has_eval_env, has_irs, pretraining, pc, num_updates, update, tick, global_step,
               global_episode, obs, next_obs, rollout, advantages, returns,
               computed, intrinsic_rewards, env_steps, evals, saves, events,
               env_resets, env_closed, eval_env_closed, irs_calls>>

closeVars == <<env_resets, env_closed, eval_env_closed>>

trainArgs == <<num_train_steps, num_envs, num_steps, eval_interval, save_interval,
               has_eval_env, has_irs, pretraining>>

vars == <<storageVars, trainVars, evalVars, envVars>>

\* ---------------------------------------------------------------- fractions
Frac(n, d) == [num |-> n, den |-> d]
FracLeq(a, b) == a.num * b.den <= b.num * a.den
FracEq(a, b) == a.num * b.den = b.num * a.den
FracDiv(a, b) == Frac(a.num * b.den, a.den * b.num)

RECURSIVE Pow(_, _)
Pow(x, n) == IF n = 0 THEN 1 ELSE x * Pow(x, n - 1)

\* A variant of abs() that keeps the sign.
Signed(x) == x

Abs(x) == IF x < 0 THEN -x ELSE x

RECURSIVE SumTo(_, _)
\* f[0] + ... + f[n-1]
SumTo(f, n) == IF n = 0 THEN 0 ELSE f[n - 1] + SumTo(f, n - 1)

RECURSIVE MaxTo(_, _)
\* max(f[0], ..., f[n-1]), n >= 1
MaxTo(f, n) == IF n = 1 THEN f[0]
               ELSE LET m == MaxTo(f, n - 1) IN IF f[n - 1] > m THEN f[n - 1] ELSE m

\* ----------------------------------------------------------- floating point
RECURSIVE GCD(_, _)
GCD(a, b) == IF b = 0 THEN a ELSE GCD(b, a % b)

\* A fraction in lowest terms.
Reduced(x) == LET g == GCD(Abs(x.num), x.den) IN Frac(x.num \div g, x.den \div g)

\* The float nearest to n / d > 0 (ties to the even significand): n / d is
\* scaled by powers of two into [2^(MantissaBits-1), 2^MantissaBits), rounded
\* to an integer there, and scaled back.
RECURSIVE RoundPositive(_, _)
RoundPositive(n, d) ==
    IF n >= d * Pow(2, MantissaBits)
    THEN LET r == RoundPositive(n, 2 * d) IN Frac(2 * r.num, r.den)
    ELSE IF n < d * Pow(2, MantissaBits - 1)
    THEN LET r == RoundPositive(2 * n, d) IN Frac(r.num, 2 * r.den)
    ELSE LET m == n \div d
             rest == n % d
             up == 2 * rest > d \/ (2 * rest = d /\ m % 2 = 1)
         IN Frac(IF up THEN m + 1 ELSE m, 1)

\* The float an exact result x is rounded to.
Round(x) ==
    IF x.num = 0 THEN Frac(0, 1)
    ELSE IF x.num > 0 THEN Reduced(RoundPositive(x.num, x.den))
    ELSE LET r == Reduced(RoundPositive(-x.num, x.den)) IN Frac(-r.num, r.den)

\* int -> float, and the float operations +, -, *, /
FloatOf(i) == Round(Frac(i, 1))
FlAdd(a, b) == Round(Frac(a.num * b.den + b.num * a.den, a.den * b.den))
FlSub(a, b) == Round(Frac(a.num * b.den - b.num * a.den, a.den * b.den))
FlMul(a, b) == Round(Frac(a.num * b.num, a.den * b.den))
FlDiv(a, b) == Round(Frac(a.num * b.den, a.den * b.num))

\* The floats of [0, 1] with exponents down to -(MantissaBits + 2).
UnitFloats ==
    {x \in {Reduced(Frac(m, Pow(2, k))) :
               m \in 0..Pow(2, MantissaBits), k \in 0..(MantissaBits + 2)} :
        x.num <= x.den}

\* ------------------------------------------------------------------ calls
NoCall == [op |-> "init", arg |-> <<>>]
NoRet == [kind |-> "none"]

\* __len__ (lines 47-48)
StorageLen == Len(storage)

\* A variant of a bounded deque that refuses the new element when it is full.
DequeAppendKeepOldest(dq, maxlen, x) ==
    IF Len(dq) >= maxlen THEN dq ELSE Append(dq, x)

\* deque(maxlen=storage_size).append (line 43, line 86): a full deque drops its
\* leftmost element, and every remaining element moves one index down.
DequeAppend(dq, maxlen, x) ==
    IF maxlen = 0 THEN dq
    ELSE IF Len(dq) = maxlen THEN Append(Tail(dq), x)
    ELSE Append(dq, x)

\* deque index i (0-based): self.storage[i]
DequeAt(dq, i) == dq[i + 1]

\* annealing_beta (lines 50-59):
\*   min(1.0, beta + step * (1.0 - beta) / storage_size)
annealing_beta(step) ==
    LET one == Frac(1, 1)
        x == FlAdd(beta, FlDiv(FlMul(FloatOf(step), FlSub(one, beta)),
                               FloatOf(storage_size)))
    IN IF FracLeq(one, x) THEN one ELSE x

\* The step arguments annealing_beta is called with: up to and beyond
\* storage_size.
AnnealSteps(size) == 0..(2 * size + 1)

\* A call of annealing_beta (lines 50-59): it reads beta and storage_size and
\* changes nothing.
Anneal ==
    \E step \in AnnealSteps(storage_size) :
        /\ call' = [op |-> "annealing_beta", arg |-> <<step>>]
        /\ ret' = [kind |-> "ok", value |-> annealing_beta(step)]
        /\ UNCHANGED <<storage_size, batch_size, alpha, beta, storage,
                       priorities, position, inserted>>
        /\ UNCHANGED <<trainVars, evalVars, envVars>>

\* __init__ (lines 27-45)
StorageInit ==
    /\ storage_size \in 1..MaxStorageSize
    /\ batch_size \in 1..MaxBatchSize
    /\ alpha \in AlphaSet
    /\ beta \in BetaSet
    /\ storage = <<>>
    /\ priorities = [i \in 0..(storage_size - 1) |-> 0]
    /\ position = 0
    /\ inserted = 0
    /\ call = NoCall
    /\ ret = NoRet

\* add, line 84: max_prio = self.priorities.max() if self.storage else 1.0
\* (the maximum is taken over the whole array)
MaxPrioForAdd ==
    IF StorageLen # 0 THEN MaxTo(priorities, storage_size) ELSE 1

\* A variant of line 87 that lets the cursor run past the end of the table.
NextPositionUnwrapped == position + 1

\* add, line 87: self.position = (self.position + 1) % self.storage_size
NextPosition == (position + 1) % storage_size

\* add (lines 61-87); the transition is the inserted-th one
Add ==
    /\ inserted < MaxAdds
    /\ priorities' = [priorities EXCEPT ![position] = MaxPrioForAdd]
    /\ storage' = DequeAppend(storage, storage_size, inserted)
    /\ position' = NextPosition
    /\ inserted' = inserted + 1
    /\ call' = [op |-> "add", arg |-> <<inserted>>]
    /\ ret' = [kind |-> "ok"]
    /\ UNCHANGED <<storage_size, batch_size, alpha, beta>>
    /\ UNCHANGED <<trainVars, evalVars, envVars>>

\* sample, lines 98-101: the priorities the draw is made from
SamplePriorities ==
    IF StorageLen = storage_size
    THEN priorities
    ELSE [i \in 0..(position - 1) |-> priorities[i]]

SamplePrioritiesLen == IF StorageLen = storage_size THEN storage_size ELSE position

\* line 103: priorities ** alpha
PowPriorities(prios) == [i \in DOMAIN prios |-> Pow(prios[i], alpha)]

\* line 104: probs /= probs.sum(), with pw the powers of line 103 and n their
\* number; the quotient pw[i] / sum is kept as the pair (pw, sum), and 0/0 is NaN
ProbsAreNaN(pw, n) == n > 0 /\ SumTo(pw, n) = 0

\* line 105: np.random.choice(len(self.storage), self.batch_size, p=probs)
\* raises ValueError on an empty population, on p of another length than the
\* population, and on NaN probabilities; otherwise it draws, with replacement,
\* indices of positive probability.
ChoiceRaises(pw, n) ==
    \/ StorageLen = 0
    \/ n # StorageLen
    \/ ProbsAreNaN(pw, n)

ChoiceSupport(pw) == {i \in 0..(StorageLen - 1) : pw[i] > 0}

\* line 108: (len(self.storage) * probs[i]) ** (-annealing_beta(step)), with
\* probs[i] = pwi / sum and e the (integral) value of annealing_beta(step)
RawWeight(pwi, sum, e) ==
    LET x == Frac(StorageLen * pwi, sum)
    IN Frac(Pow(x.den, e), Pow(x.num, e))

\* line 109's divisor weights.max()
MaxWeight(w) ==
    CHOOSE m \in {w[k] : k \in DOMAIN w} : \A k \in DOMAIN w : FracLeq(w[k], m)

\* line 109: weights /= weights.max()
Normalized(w) ==
    LET m == MaxWeight(w) IN [k \in DOMAIN w |-> FracDiv(w[k], m)]

\* lines 107-126: what sample returns for the drawn indices
SampleResult(indices, pw, sum, e) ==
    [kind |-> "ok",
     indices |-> indices,
     samples |-> [k \in DOMAIN indices |-> DequeAt(storage, indices[k])],
     weights |-> Normalized([k \in DOMAIN indices |->
                                RawWeight(pw[indices[k]], sum, e)])]

\* A variant of sample that answers an empty storage with an empty batch.
SampleEmptyBatch ==
    \E step \in SampleSteps(storage_size) : \E b \in {annealing_beta(step)} :
        LET pw == PowPriorities(SamplePriorities)
            n == SamplePrioritiesLen
            sum == SumTo(pw, n)
            e == b.num \div b.den
        IN /\ call' = [op |-> "sample", arg |-> <<step>>]
           /\ IF StorageLen = 0
              THEN ret' = [kind |-> "ok", indices |-> <<>>, samples |-> <<>>,
                           weights |-> <<>>]
              ELSE IF ChoiceRaises(pw, n)
              THEN ret' = [kind |-> "error"]
              ELSE \E indices \in [1..batch_size -> ChoiceSupport(pw)] :
                       ret' = SampleResult(indices, pw, sum, e)
           /\ UNCHANGED <<storage_size, batch_size, alpha, beta, storage,
                          priorities, position, inserted>>
           /\ UNCHANGED <<trainVars, evalVars, envVars>>

\* A variant of sample that raises the priority table to the power alpha in
\* place (probs aliasing self.priorities) instead of working on a new array.
SampleInPlace ==
    \E step \in SampleSteps(storage_size) : \E b \in {annealing_beta(step)} :
        LET pw == PowPriorities(SamplePriorities)
            n == SamplePrioritiesLen
            sum == SumTo(pw, n)
            e == b.num \div b.den
        IN /\ call' = [op |-> "sample", arg |-> <<step>>]
           /\ IF ChoiceRaises(pw, n)
              THEN ret' = [kind |-> "error"]
              ELSE \E indices \in [1..batch_size -> ChoiceSupport(pw)] :
                       ret' = SampleResult(indices, pw, sum, e)
           /\ priorities' = [i \in DOMAIN priorities |->
                                IF i < n THEN pw[i] ELSE priorities[i]]
           /\ UNCHANGED <<storage_size, batch_size, alpha, beta, storage,
                          position, inserted>>
           /\ UNCHANGED <<trainVars, evalVars, envVars>>

\* sample (lines 89-126)
Sample ==
    \E step \in SampleSteps(storage_size) : \E b \in {annealing_beta(step)} :
        LET pw == PowPriorities(SamplePriorities)
            n == SamplePrioritiesLen
            sum == SumTo(pw, n)
            e == b.num \div b.den
        IN /\ call' = [op |-> "sample", arg |-> <<step>>]
           /\ IF ChoiceRaises(pw, n)
              THEN ret' = [kind |-> "error"]
              ELSE \E indices \in [1..batch_size -> ChoiceSupport(pw)] :
                       ret' = SampleResult(indices, pw, sum, e)
           /\ UNCHANGED <<storage_size, batch_size, alpha, beta, storage,
                          priorities, position, inserted>>
           /\ UNCHANGED <<trainVars, evalVars, envVars>>

\* A variant of the loop of lines 140-141 that leaves out abs().
RECURSIVE ApplyPairsSigned(_, _, _, _)
ApplyPairsSigned(prios, indices, values, k) ==
    IF k > Len(indices) \/ k > Len(values) THEN prios
    ELSE ApplyPairsSigned([prios EXCEPT ![indices[k]] = values[k]],
                          indices, values, k + 1)

\* update, lines 140-141: the loop over zip(indices, priorities)
RECURSIVE ApplyPairs(_, _, _, _)
ApplyPairs(prios, indices, values, k) ==
    IF k > Len(indices) \/ k > Len(values) THEN prios
    ELSE ApplyPairs([prios EXCEPT ![indices[k]] = Abs(values[k])],
                    indices, values, k + 1)

\* A variant of update that stores the priorities as given, sign included.
UpdatedPrioritiesSigned(metrics) ==
    IF "indices" \in metrics.keys /\ "priorities" \in metrics.keys
    THEN ApplyPairsSigned(priorities, metrics.indices, metrics.priorities, 1)
    ELSE priorities

\* update, lines 139-141: the priority table after the call
UpdatedPriorities(metrics) ==
    IF "indices" \in metrics.keys /\ "priorities" \in metrics.keys
    THEN ApplyPairs(priorities, metrics.indices, metrics.priorities, 1)
    ELSE priorities

\* The metrics dictionaries update() is called with: the indices are indices a
\* sample call can return (those of stored transitions).
MetricsOf(n) ==
    {[keys |-> {"indices", "priorities"}, indices |-> is, priorities |-> ps] :
        is \in [1..n -> 0..(StorageLen - 1)], ps \in [1..n -> PriorityInputs]}

PairedMetrics == UNION {MetricsOf(n) : n \in PairCounts}

\* Dictionaries that lack one of the two keys, or both.
PartialMetrics ==
    {[keys |-> {}, indices |-> <<>>, priorities |-> <<>>]}
    \cup {[keys |-> {"indices"}, indices |-> is, priorities |-> <<>>] :
             is \in [1..1 -> 0..(StorageLen - 1)]}
    \cup {[keys |-> {"priorities"}, indices |-> <<>>, priorities |-> ps] :
             ps \in [1..1 -> PriorityInputs]}

\* The priority feedback of a learner: one pair per call.
FeedbackMetrics == MetricsOf(1)

\* update (lines 128-141), called with a dictionary of the set M
Update(M) ==
    \E metrics \in M :
        /\ priorities' = UpdatedPriorities(metrics)
        /\ call' = [op |-> "update", arg |-> <<metrics>>]
        /\ ret' = [kind |-> "ok"]
        /\ UNCHANGED <<storage_size, batch_size, alpha, beta, storage,
                       position, inserted>>
        /\ UNCHANGED <<trainVars, evalVars, envVars>>

\* --------------------------------------------------------- OnPolicyAgent
\* Tensors of shape (num_steps, num_envs) are functions of t \in 1..num_steps and
\* e \in 1..num_envs; a tensor not computed yet is empty.
EmptyTensor == <<>>

\* The agent before train is called: counters at zero, nothing collected.
TrainInit ==
    /\ num_train_steps \in 0..MaxTrainSteps
    /\ num_envs \in 1..MaxEnvs
    /\ num_steps \in 1..MaxSteps
    /\ eval_interval \in EvalIntervals
    /\ save_interval \in SaveIntervals
    /\ has_eval_env \in BOOLEAN
    /\ has_irs \in BOOLEAN
    /\ pretraining \in BOOLEAN
    /\ pc = "reset"
    /\ num_updates = 0
    /\ update = 0
    /\ tick = 0
    /\ global_step = 0
    /\ global_episode = 0
    /\ obs = -1
    /\ next_obs = -1
    /\ rollout = <<>>
    /\ advantages = EmptyTensor
    /\ returns = EmptyTensor
    /\ computed = [advantages |-> EmptyTensor, returns |-> EmptyTensor, bootstrap |-> -1]
    /\ intrinsic_rewards = EmptyTensor
    /\ env_steps = 0
    /\ evals = 0
    /\ saves = 0
    /\ events = <<>>
    /\ env_resets = 0
    /\ env_closed = FALSE
    /\ eval_env_closed = FALSE
    /\ irs_calls = <<>>

\* A variant of line 107 that forgets the number of environments.
NumUpdatesPerSingleEnv == num_train_steps \div num_steps

\* line 107: num_updates = int(num_train_steps // self.num_envs // self.num_steps)
NumUpdates == (num_train_steps \div num_envs) \div num_steps

\* lines 100-107: freeze, reset the environment, compute the number of updates
TrainReset ==
    /\ pc = "reset"
    /\ obs' = 0
    /\ num_updates' = NumUpdates
    /\ update' = 0
    /\ env_resets' = env_resets + 1
    /\ pc' = "loop"
    /\ UNCHANGED <<trainArgs, tick, global_step, global_episode, next_obs, rollout,
                   advantages, returns, computed, intrinsic_rewards, env_steps,
                   evals, saves, events, env_closed, eval_env_closed, irs_calls>>
    /\ UNCHANGED <<storageVars, evalVars, envVars>>

\* A variant of line 111 that does not look for an evaluation environment.
EvalDueWithoutEnv == (update % eval_interval) = 0

\* line 111: (update % eval_interval) == 0 and (self.eval_env is not None)
EvalDue == (update % eval_interval) = 0 /\ has_eval_env

\* line 109: for update in range(num_updates); lines 111-114: the evaluation at
\* the start of a cycle; lines 117-119 change no state of the model
TrainLoop ==
    /\ pc = "loop"
    /\ IF update < num_updates
       THEN /\ pc' = "rollout"
            /\ tick' = 0
            /\ evals' = IF EvalDue THEN evals + 1 ELSE evals
       ELSE /\ pc' = "final_save"
            /\ UNCHANGED <<tick, evals>>
    /\ UNCHANGED <<trainArgs, num_updates, update, global_step, global_episode,
                   obs, next_obs, rollout, advantages, returns, computed,
                   intrinsic_rewards, env_steps, saves, events, closeVars, irs_calls>>
    /\ UNCHANGED <<storageVars, evalVars, envVars>>

\* A variant of lines 129-130 that never zeroes the reward.
EnvReward(rews) == rews

\* lines 129-130: if self.pretraining: rews = th.zeros_like(rews)
StoredReward(rews) == IF pretraining THEN 0 ELSE rews

\* A variant of the tick without line 141: the policy keeps seeing the
\* observation it saw before.
CurrentObsKept(stepped) == obs

\* line 141: obs = next_obs
CurrentObsAfterTick(stepped) == stepped

\* A variant of the rollout loop that may stop after its first tick.
RolloutDoneEarly == tick >= 1

\* line 121: for _ in range(self.num_steps) has run num_steps times
RolloutDone == tick = num_steps

\* lines 121-141: one tick of the rollout loop: act, step the environment, zero
\* the reward when pretraining, add the transition, move to the next observation
TrainTick ==
    /\ pc = "rollout"
    /\ ~RolloutDone
    /\ \E rews \in Rewards :
           LET stepped == env_steps + 1
           IN /\ next_obs' = stepped
              /\ env_steps' = stepped
              /\ rollout' = Append(rollout, [obs |-> obs, actions |-> obs,
                                             rews |-> StoredReward(rews),
                                             env_rews |-> rews, next_obs |-> stepped])
              /\ obs' = CurrentObsAfterTick(stepped)
    /\ tick' = tick + 1
    /\ events' = (IF tick = 0 THEN <<>> ELSE events) \o <<"step", "add">>
    /\ UNCHANGED <<trainArgs, pc, num_updates, update, global_step, global_episode,
                   advantages, returns, computed, intrinsic_rewards, evals, saves,
                   closeVars, irs_calls>>
    /\ UNCHANGED <<storageVars, evalVars, envVars>>

\* The (advantages, returns) pairs compute_returns_and_advantages may produce.
BaseAdvantages(k) ==
    [t \in 1..num_steps |-> [e \in 1..num_envs |-> (t + 2 * e + k) % 3]]
BaseReturns(k) ==
    [t \in 1..num_steps |-> [e \in 1..num_envs |-> ((t + 2 * e + k) % 3) + t + k]]

\* A variant of line 151 that takes a module to be attached.
IrsAlways == TRUE

\* line 151: if self.irs is not None
IrsAttached == has_irs

\* lines 143-148: the bootstrap value and compute_returns_and_advantages
TrainReturns ==
    /\ pc = "rollout"
    /\ RolloutDone
    /\ \E k \in BasePatterns :
           /\ advantages' = BaseAdvantages(k)
           /\ returns' = BaseReturns(k)
           /\ computed' = [advantages |-> BaseAdvantages(k), returns |-> BaseReturns(k),
                           bootstrap |-> next_obs]
    /\ pc' = IF IrsAttached THEN "irs" ELSE "policy_update"
    /\ events' = Append(events, "returns")
    /\ irs_calls' = <<>>
    /\ UNCHANGED <<trainArgs, num_updates, update, tick, global_step,
                   global_episode, obs, next_obs, rollout, intrinsic_rewards,
                   env_steps, evals, saves, closeVars>>
    /\ UNCHANGED <<storageVars, evalVars, envVars>>

\* The tensors compute_irs may return.
IntrinsicRewards(c) ==
    [t \in 1..num_steps |-> [e \in 1..num_envs |-> 1 + ((c * (t + e)) % 2)]]

\* A variant of lines 173-174 that replaces the entries by the intrinsic rewards.
Substituted(x, ir) == ir

\* lines 173-174: x += intrinsic_rewards
AddedInPlace(x, ir) ==
    [t \in DOMAIN x |-> [e \in DOMAIN x[t] |-> x[t][e] + ir[t][e]]]

\* self.storage.observations: the num_steps + 1 observations of the segment,
\* the last one being the bootstrap observation; self.storage.actions
StorageObservations ==
    IF rollout = <<>> THEN <<>>
    ELSE <<rollout[1].obs>> \o [k \in 1..Len(rollout) |-> rollout[k].next_obs]
StorageActions == [k \in 1..Len(rollout) |-> rollout[k].actions]

\* x[:-1] and x[1:]
AllButLast(x) == SubSeq(x, 1, Len(x) - 1)
AllButFirst(x) == SubSeq(x, 2, Len(x))

\* lines 156-161, 165-169, 180-184: the samples dictionary of a module call
IrsSamples ==
    [obs |-> AllButLast(StorageObservations),
     actions |-> StorageActions,
     next_obs |-> AllButFirst(StorageObservations)]

\* line 170: step=self.global_episode * self.num_envs * self.num_steps
IrsStep == global_episode * num_envs * num_steps

\* lines 155-162: irs.add
TrainIrsAdd ==
    /\ pc = "irs"
    /\ irs_calls' = Append(irs_calls, [op |-> "add", samples |-> IrsSamples, step |-> -1])
    /\ pc' = "irs_compute"
    /\ UNCHANGED <<trainArgs, num_updates, update, tick, global_step,
                   global_episode, obs, next_obs, rollout, advantages, returns,
                   computed, intrinsic_rewards, env_steps, evals, saves, events,
                   closeVars>>
    /\ UNCHANGED <<storageVars, evalVars, envVars>>

\* lines 164-174: compute_irs and the in-place addition
TrainIrs ==
    /\ pc = "irs_compute"
    /\ \E c \in IrsPatterns :
           /\ intrinsic_rewards' = IntrinsicRewards(c)
           /\ advantages' = AddedInPlace(advantages, IntrinsicRewards(c))
           /\ returns' = AddedInPlace(returns, IntrinsicRewards(c))
    /\ irs_calls' = irs_calls \o
           <<[op |-> "compute_irs", samples |-> IrsSamples, step |-> IrsStep],
             [op |-> "inject", samples |-> IrsSamples, step |-> -1]>>
    /\ pc' = "irs_update"
    /\ UNCHANGED <<trainArgs, num_updates, update, tick, global_step,
                   global_episode, obs, next_obs, rollout, computed, env_steps,
                   evals, saves, events, closeVars>>
    /\ UNCHANGED <<storageVars, evalVars, envVars>>

\* lines 178-185: irs.update
TrainIrsUpdate ==
    /\ pc = "irs_update"
    /\ irs_calls' = Append(irs_calls, [op |-> "update", samples |-> IrsSamples, step |-> -1])
    /\ pc' = "policy_update"
    /\ UNCHANGED <<trainArgs, num_updates, update, tick, global_step,
                   global_episode, obs, next_obs, rollout, advantages, returns,
                   computed, intrinsic_rewards, env_steps, evals, saves, events,
                   closeVars>>
    /\ UNCHANGED <<storageVars, evalVars, envVars>>

\* lines 187-188: self.update() reads the storage
TrainUpdate ==
    /\ pc = "policy_update"
    /\ pc' = "storage_update"
    /\ events' = Append(events, "update")
    /\ UNCHANGED <<trainArgs, num_updates, update, tick, global_step,
                   global_episode, obs, next_obs, rollout, advantages, returns,
                   computed, intrinsic_rewards, env_steps, evals, saves, closeVars, irs_calls>>
    /\ UNCHANGED <<storageVars, evalVars, envVars>>

\* lines 190-191: self.storage.update() gets the storage ready for the next
\* segment
TrainStorageUpdate ==
    /\ pc = "storage_update"
    /\ rollout' = <<>>
    /\ pc' = "counters"
    /\ events' = Append(events, "storage_update")
    /\ UNCHANGED <<trainArgs, num_updates, update, tick, global_step,
                   global_episode, obs, next_obs, advantages, returns, computed,
                   intrinsic_rewards, env_steps, evals, saves, closeVars, irs_calls>>
    /\ UNCHANGED <<storageVars, evalVars, envVars>>

\* A variant of line 195 that advances global_step by num_steps only.
GlobalStepPerSingleEnv == global_step + num_steps

\* line 195: self.global_step += self.num_envs * self.num_steps
GlobalStepAdvanced == global_step + num_envs * num_steps

\* line 194: self.global_episode += self.num_envs
GlobalEpisodeAdvanced == global_episode + num_envs

\* lines 193-195: the counters
TrainCounters ==
    /\ pc = "counters"
    /\ global_episode' = GlobalEpisodeAdvanced
    /\ global_step' = GlobalStepAdvanced
    /\ pc' = "save"
    /\ UNCHANGED <<trainArgs, num_updates, update, tick, obs, next_obs, rollout,
                   advantages, returns, computed, intrinsic_rewards, env_steps,
                   evals, saves, events, closeVars, irs_calls>>
    /\ UNCHANGED <<storageVars, evalVars, envVars>>

\* lines 197-213: logging, the periodic save, and the end of the cycle
TrainSave ==
    /\ pc = "save"
    /\ saves' = IF update % save_interval = 0 THEN saves + 1 ELSE saves
    /\ update' = update + 1
    /\ pc' = "loop"
    /\ UNCHANGED <<trainArgs, num_updates, tick, global_step, global_episode, obs,
                   next_obs, rollout, advantages, returns, computed,
                   intrinsic_rewards, env_steps, evals, events, closeVars, irs_calls>>
    /\ UNCHANGED <<storageVars, evalVars, envVars>>

\* A variant of line 216 that leaves out the final save.
FinalSaveSkipped == saves

\* line 216: self.save()
FinalSaved == saves + 1

\* lines 215-218: the final save and the final log message
TrainFinish ==
    /\ pc = "final_save"
    /\ saves' = FinalSaved
    /\ pc' = "close"
    /\ UNCHANGED <<trainArgs, num_updates, update, tick, global_step,
                   global_episode, obs, next_obs, rollout, advantages, returns,
                   computed, intrinsic_rewards, env_steps, evals, events, closeVars, irs_calls>>
    /\ UNCHANGED <<storageVars, evalVars, envVars>>

\* lines 220-223: self.env.close(), and self.eval_env.close() when there is an
\* evaluation environment
TrainClose ==
    /\ pc = "close"
    /\ env_closed' = TRUE
    /\ eval_env_closed' = has_eval_env
    /\ pc' = "done"
    /\ UNCHANGED <<trainArgs, num_updates, update, tick, global_step,
                   global_episode, obs, next_obs, rollout, advantages, returns,
                   computed, intrinsic_rewards, env_steps, evals, saves, events,
                   env_resets, irs_calls>>
    /\ UNCHANGED <<storageVars, evalVars, envVars>>

\* ------------------------------------------------------ OnPolicyAgent.eval
\* A variant of eval without the assertion of line 234.
EvalEnvAssumed == TRUE

\* line 234: assert self.eval_env is not None
EvalEnvProvided == has_eval_env

\* eval is called
EvalCall ==
    /\ eval_pc = "idle"
    /\ eval_pc' = "called"
    /\ UNCHANGED <<num_eval_episodes, num_eval_envs, ep_len, episode_rewards,
                   episode_steps, eval_resets, eval_env_steps, eval_ret>>
    /\ UNCHANGED <<storageVars, trainVars, envVars>>

\* line 234: without an evaluation environment eval ends in an AssertionError
EvalAssert ==
    /\ eval_pc = "called"
    /\ IF EvalEnvProvided
       THEN eval_pc' = "reset" /\ UNCHANGED eval_ret
       ELSE eval_pc' = "error" /\ eval_ret' = [kind |-> "error"]
    /\ UNCHANGED <<num_eval_episodes, num_eval_envs, ep_len, episode_rewards,
                   episode_steps, eval_resets, eval_env_steps>>
    /\ UNCHANGED <<storageVars, trainVars, envVars>>

\* lines 236-238: reset the evaluation environment, start with empty lists
EvalReset ==
    /\ eval_pc = "reset"
    /\ eval_resets' = eval_resets + 1
    /\ ep_len' = [e \in 1..num_eval_envs |-> 0]
    /\ episode_rewards' = <<>>
    /\ episode_steps' = <<>>
    /\ eval_pc' = "loop"
    /\ UNCHANGED <<num_eval_episodes, num_eval_envs, eval_env_steps, eval_ret>>
    /\ UNCHANGED <<storageVars, trainVars, envVars>>

\* get_episode_statistics: the returns and the lengths of the sub-environments
\* whose episode length in infos["episode"]["l"] is not zero, in index order
RECURSIVE get_episode_statistics(_, _)
get_episode_statistics(infos, n) ==
    IF n = 0 THEN [r |-> <<>>, l |-> <<>>]
    ELSE LET before == get_episode_statistics(infos, n - 1)
         IN IF infos[n].l # 0
            THEN [r |-> Append(before.r, infos[n].r), l |-> Append(before.l, infos[n].l)]
            ELSE before

\* line 241: while len(episode_rewards) < num_eval_episodes
EvalLoopRuns == Len(episode_rewards) < num_eval_episodes

\* lines 241-253: one pass of the evaluation loop.  The sub-environments of
\* fin end their episode on this step, each with a return; a sub-environment
\* ends its episode at the latest after MaxEpisodeLen steps.
EvalStep ==
    /\ eval_pc = "loop"
    /\ EvalLoopRuns
    /\ \E fin \in SUBSET (1..num_eval_envs) :
           /\ \A e \in 1..num_eval_envs : ep_len[e] + 1 >= MaxEpisodeLen => e \in fin
           /\ \E r \in [fin -> Rewards] :
                  LET infos == [e \in 1..num_eval_envs |->
                                   IF e \in fin THEN [r |-> r[e], l |-> ep_len[e] + 1]
                                   ELSE [r |-> 0, l |-> 0]]
                      eps == get_episode_statistics(infos, num_eval_envs)
                  IN /\ episode_rewards' =
                            IF fin # {} THEN episode_rewards \o eps.r ELSE episode_rewards
                     /\ episode_steps' =
                            IF fin # {} THEN episode_steps \o eps.l ELSE episode_steps
           /\ ep_len' = [e \in 1..num_eval_envs |->
                            IF e \in fin THEN 0 ELSE ep_len[e] + 1]
    /\ eval_env_steps' = eval_env_steps + 1
    /\ UNCHANGED <<eval_pc, num_eval_episodes, num_eval_envs, eval_resets, eval_ret>>
    /\ UNCHANGED <<storageVars, trainVars, envVars>>

\* f[1] + ... + f[Len(f)]
RECURSIVE SeqSum(_)
SeqSum(f) == IF f = <<>> THEN 0 ELSE Head(f) + SeqSum(Tail(f))

\* np.mean of a non-empty list
Mean(f) == Reduced(Frac(SeqSum(f), Len(f)))

\* lines 255-261: the evaluation results
EvalReturn ==
    /\ eval_pc = "loop"
    /\ ~EvalLoopRuns
    /\ eval_ret' = [kind |-> "ok",
                    step |-> global_step,
                    episode |-> global_episode,
                    episode_length |-> Mean(episode_steps),
                    episode_reward |-> Mean(episode_rewards)]
    /\ eval_pc' = "returned"
    /\ UNCHANGED <<num_eval_episodes, num_eval_envs, ep_len, episode_rewards,
                   episode_steps, eval_resets, eval_env_steps>>
    /\ UNCHANGED <<storageVars, trainVars, envVars>>

\* ----------------------------------------------------- TorchVecEnvWrapper
\* None, and the flags as the adapter returns them (1.0 and 0.0)
None == -1
Flag(b) == IF b THEN 1 ELSE 0

\* TimeStep (env/utils.py lines 91-113): a NamedTuple of the seven fields
\* observation, action, reward, terminated, truncated, info, next_observation,
\* each None unless given.  As a tuple it is the sequence of the seven.
TimeStep(observation, action, reward, terminated, truncated, info, next_observation) ==
    <<observation, action, reward, terminated, truncated, info, next_observation>>

\* a, b, ... = t with n names on the left: a tuple of another length raises
\* ValueError
Unpack(t, n) ==
    IF Len(t) = n THEN [kind |-> "ok", values |-> t]
    ELSE [kind |-> "ValueError", values |-> <<>>]

\* The names on the left of lines 105 and 126 of on_policy_agent.py
ResetNames == 2
StepNames == 5

\* TorchVecEnvWrapper.reset (lines 158-176), called as in line 105 of
\* on_policy_agent.py: obs, infos = self.env.reset(seed=self.seed).
\* Observations and infos are named by the number of calls before them.
AdapterReset ==
    /\ adapter_calls < MaxAdapterCalls
    /\ LET obs_ == adapter_calls
           ret_ == TimeStep(obs_, None, None, None, None, adapter_calls, None)
       IN /\ current_obs' = obs_
          /\ time_step' = [op |-> "reset", ret |-> ret_, obs |-> obs_,
                           reward |-> None, terminated |-> None, truncated |-> None,
                           info |-> adapter_calls]
          /\ bound' = Unpack(ret_, ResetNames)
    /\ adapter_calls' = adapter_calls + 1
    /\ UNCHANGED <<storageVars, trainVars, evalVars, lifeVars, skipVars>>

\* TorchVecEnvWrapper.step (lines 178-212), called as in line 126 of
\* on_policy_agent.py: next_obs, rews, terms, truncs, infos = self.env.step(actions).
\* time_step.obs .. time_step.info are what the wrapped environment returned.
AdapterStep ==
    /\ adapter_calls < MaxAdapterCalls
    /\ current_obs # None
    /\ \E action \in {0, 1}, reward \in Rewards, terminated \in BOOLEAN,
          truncated \in BOOLEAN :
           LET obs_ == adapter_calls
               ret_ == TimeStep(current_obs, action, reward, Flag(terminated),
                                Flag(truncated), adapter_calls, obs_)
           IN /\ current_obs' = obs_
              /\ time_step' = [op |-> "step", ret |-> ret_, obs |-> obs_,
                               reward |-> reward, terminated |-> Flag(terminated),
                               truncated |-> Flag(truncated), info |-> adapter_calls]
              /\ bound' = Unpack(ret_, StepNames)
    /\ adapter_calls' = adapter_calls + 1
    /\ UNCHANGED <<storageVars, trainVars, evalVars, lifeVars, skipVars>>

\* -------------------------------------------------------- EpisodicLifeEnv
\* if self.lives > lives > 0 (mario/wrappers.py line 20)
LifeLost(before, after) == before > after /\ after > 0

\* EpisodicLifeEnv.step (lines 16-23).  The wrapped game returns its flags
\* and has some number of lives left.  A caller steps an environment that
\* it has reset and whose episode has not ended.
LifeStep ==
    /\ life_steps < MaxLifeSteps
    /\ inner_resets > 0
    /\ ~ (life_ret.op = "step" /\ (life_ret.terminated \/ life_ret.truncated))
    /\ \E terminated \in BOOLEAN, truncated \in BOOLEAN, life \in 0..MaxLives :
           /\ was_real_done' = (terminated \/ truncated)
           /\ game_life' = life
           /\ life_ret' = [op |-> "step",
                           terminated |-> IF LifeLost(lives, life) THEN TRUE ELSE terminated,
                           truncated |-> IF LifeLost(lives, life) THEN TRUE ELSE truncated,
                           inner_done |-> (terminated \/ truncated)]
           /\ lives' = life
    /\ life_steps' = life_steps + 1
    /\ UNCHANGED inner_resets
    /\ UNCHANGED <<storageVars, trainVars, evalVars, adapterVars, skipVars>>

\* EpisodicLifeEnv.reset (lines 25-26): return self.env.reset(**kwargs).
\* The wrapped game starts again with some lives.
LifeReset ==
    /\ life_ret.op # "reset"
    /\ inner_resets' = inner_resets + 1
    /\ \E life \in 1..MaxLives : game_life' = life
    /\ life_ret' = [op |-> "reset", terminated |-> FALSE, truncated |-> FALSE,
                    inner_done |-> FALSE]
    /\ UNCHANGED <<lives, was_real_done, life_steps>>
    /\ UNCHANGED <<storageVars, trainVars, evalVars, adapterVars, skipVars>>

\* -------------------------------------------------------------- SkipFrame
\* A variant of the break condition that looks at terminated only.
SkipBreaksOnTerminated(terminated, truncated) == terminated

\* if np.logical_or(terminated, truncated): break (mario/wrappers.py lines 42-43)
SkipBreaks(terminated, truncated) == terminated \/ truncated

\* The loop of SkipFrame.step is left: range(self._skip) is used up or the
\* last inner step made it break.
SkipLoopLeft ==
    LET n == Len(inner_steps)
    IN \/ n >= skip
       \/ n > 0 /\ SkipBreaks(inner_steps[n].terminated, inner_steps[n].truncated)

\* SkipFrame.step is called (lines 35-37): total_reward = 0.0
SkipStep ==
    /\ skip_pc = "idle"
    /\ \E action \in {0, 1} : skip_action' = action
    /\ total_reward' = 0
    /\ inner_steps' = <<>>
    /\ skip_pc' = "loop"
    /\ UNCHANGED <<skip, skip_ret>>
    /\ UNCHANGED <<storageVars, trainVars, evalVars, adapterVars, lifeVars>>

\* One pass of the loop (lines 38-43): the wrapped environment is stepped
\* with the action and returns its n-th observation and info, a reward and
\* its flags; the reward is added to total_reward.
SkipInnerStep ==
    /\ skip_pc = "loop"
    /\ ~ SkipLoopLeft
    /\ \E reward \in Rewards, terminated \in BOOLEAN, truncated \in BOOLEAN :
           LET n == Len(inner_steps) + 1
           IN /\ inner_steps' = Append(inner_steps,
                     [action |-> skip_action, obs |-> n, reward |-> reward,
                      terminated |-> terminated, truncated |-> truncated, info |-> n])
              /\ total_reward' = total_reward + reward
    /\ UNCHANGED <<skip, skip_pc, skip_action, skip_ret>>
    /\ UNCHANGED <<storageVars, trainVars, evalVars, adapterVars, lifeVars>>

\* return obs, total_reward, terminated, truncated, info (line 44): the
\* names hold what the last pass bound; with no pass made they are unbound
\* and the return raises UnboundLocalError.
SkipReturn ==
    /\ skip_pc = "loop"
    /\ SkipLoopLeft
    /\ LET n == Len(inner_steps)
       IN skip_ret' = IF n = 0 THEN [kind |-> "UnboundLocalError"]
                      ELSE [kind |-> "ok", obs |-> inner_steps[n].obs,
                            reward |-> total_reward,
                            terminated |-> inner_steps[n].terminated,
                            truncated |-> inner_steps[n].truncated,
                            info |-> inner_steps[n].info]
    /\ skip_pc' = "returned"
    /\ UNCHANGED <<skip, skip_action, total_reward, inner_steps>>
    /\ UNCHANGED <<storageVars, trainVars, evalVars, adapterVars, lifeVars>>

\* ------------------------------------------------------------ specifications
\* An adapter on which nothing is called.
AdapterIdle ==
    /\ current_obs = None /\ adapter_calls = 0
    /\ time_step = [op |-> "init"] /\ bound = [kind |-> "none", values |-> <<>>]

\* EpisodicLifeEnv.__init__ (lines 6-14), with nothing called on it.
LifeIdle ==
    /\ lives = 0 /\ was_real_done = TRUE
    /\ game_life = 0 /\ inner_resets = 0 /\ life_steps = 0
    /\ life_ret = [op |-> "init", terminated |-> FALSE, truncated |-> FALSE,
                   inner_done |-> FALSE]

\* A SkipFrame that is not made.
SkipIdle ==
    /\ skip = 0 /\ skip_pc = "off" /\ skip_action = 0 /\ total_reward = 0
    /\ inner_steps = <<>> /\ skip_ret = [kind |-> "none"]

EnvIdle == AdapterIdle /\ LifeIdle /\ SkipIdle

\* An agent on which eval is not called.
EvalIdle ==
    /\ eval_pc = "off" /\ num_eval_episodes = 1 /\ num_eval_envs = 1
    /\ ep_len = <<0>> /\ episode_rewards = <<>> /\ episode_steps = <<>>
    /\ eval_resets = 0 /\ eval_env_steps = 0 /\ eval_ret = NoRet

\* An agent on which train is not called.
TrainIdle ==
    /\ num_train_steps = 0 /\ num_envs = 1 /\ num_steps = 1 /\ eval_interval = 1
    /\ save_interval = 1
    /\ has_eval_env = FALSE /\ has_irs = FALSE /\ pretraining = FALSE
    /\ pc = "idle" /\ num_updates = 0 /\ update = 0 /\ tick = 0
    /\ global_step = 0 /\ global_episode = 0 /\ obs = -1 /\ next_obs = -1
    /\ rollout = <<>> /\ advantages = EmptyTensor /\ returns = EmptyTensor
    /\ computed = [advantages |-> EmptyTensor, returns |-> EmptyTensor, bootstrap |-> -1]
    /\ intrinsic_rewards = EmptyTensor
    /\ env_steps = 0 /\ evals = 0 /\ saves = 0
    /\ events = <<>> /\ env_resets = 0
    /\ env_closed = FALSE /\ eval_env_closed = FALSE /\ irs_calls = <<>>

\* A storage on which nothing is called.
StorageIdle ==
    /\ storage_size = 1 /\ batch_size = 1 /\ alpha = 1 /\ beta = Frac(0, 1)
    /\ storage = <<>> /\ priorities = [i \in 0..0 |-> 0] /\ position = 0
    /\ inserted = 0 /\ call = NoCall /\ ret = NoRet

Init == StorageInit /\ TrainIdle /\ EvalIdle /\ EnvIdle

\* The storage under add, sample and the learner's priority feedback.
Next == Add \/ Sample \/ Update(FeedbackMetrics)

Spec == Init /\ [][Next]_vars

\* The storage under add and update with every metrics dictionary of the model.
UpdateNext == Add \/ Update(PairedMetrics \cup PartialMetrics)

\* update reads neither batch_size nor alpha: one value of each.
UpdateInit == Init /\ batch_size = 1 /\ alpha = 1

UpdateSpec == UpdateInit /\ [][UpdateNext]_vars

\* A storage built with any float of [0, 1] as beta, under annealing_beta.
AnnealInit ==
    /\ TrainIdle /\ EvalIdle /\ EnvIdle
    /\ storage_size \in 1..MaxStorageSize
    /\ batch_size = 1 /\ alpha = 1
    /\ beta \in UnitFloats
    /\ storage = <<>>
    /\ priorities = [i \in 0..(storage_size - 1) |-> 0]
    /\ position = 0 /\ inserted = 0 /\ call = NoCall /\ ret = NoRet

AnnealNext == Anneal

AnnealSpec == AnnealInit /\ [][AnnealNext]_vars

\* The counters of an agent eval is called on: a fresh one, or one that has
\* trained for one cycle of MaxEnvs environments and MaxSteps steps.
TrainedCycles == {0, 1}

\* An agent, with or without an evaluation environment, on which eval is called
\* between two calls of train.
EvalInit ==
    /\ StorageIdle /\ EnvIdle
    /\ num_train_steps = 0 /\ num_envs = MaxEnvs /\ num_steps = MaxSteps
    /\ eval_interval = 1 /\ save_interval = 1
    /\ has_eval_env \in BOOLEAN /\ has_irs = FALSE /\ pretraining = FALSE
    /\ pc = "idle" /\ num_updates = 0 /\ update = 0 /\ tick = 0
    /\ \E c \in TrainedCycles :
           /\ global_step = c * MaxEnvs * MaxSteps
           /\ global_episode = c * MaxEnvs
           /\ env_steps = c * MaxSteps
           /\ env_resets = c
           /\ saves = c
    /\ obs = -1 /\ next_obs = -1
    /\ rollout = <<>> /\ advantages = EmptyTensor /\ returns = EmptyTensor
    /\ computed = [advantages |-> EmptyTensor, returns |-> EmptyTensor, bootstrap |-> -1]
    /\ intrinsic_rewards = EmptyTensor
    /\ evals = 0 /\ events = <<>>
    /\ env_closed = FALSE /\ eval_env_closed = FALSE /\ irs_calls = <<>>
    /\ eval_pc = "idle"
    /\ num_eval_episodes \in 1..MaxEvalEpisodes
    /\ num_eval_envs \in 1..MaxEvalEnvs
    /\ ep_len = [e \in 1..num_eval_envs |-> 0]
    /\ episode_rewards = <<>> /\ episode_steps = <<>>
    /\ eval_resets = 0 /\ eval_env_steps = 0 /\ eval_ret = NoRet

EvalNext == EvalCall \/ EvalAssert \/ EvalReset \/ EvalStep \/ EvalReturn

EvalSpec == EvalInit /\ [][EvalNext]_vars

\* One call of train.
TrainSpecInit == StorageIdle /\ TrainInit /\ EvalIdle /\ EnvIdle

\* The environment adapter under reset and step calls made as train makes them.
AdapterInit == StorageIdle /\ TrainIdle /\ EvalIdle /\ EnvIdle

AdapterNext == AdapterReset \/ AdapterStep

AdapterSpec == AdapterInit /\ [][AdapterNext]_vars

\* EpisodicLifeEnv under reset and step calls.
LifeInit == StorageIdle /\ TrainIdle /\ EvalIdle /\ EnvIdle

LifeNext == LifeReset \/ LifeStep

LifeSpec == LifeInit /\ [][LifeNext]_vars

\* SkipFrame.__init__ (lines 29-33) with some skip, and one call of step.
SkipInit ==
    /\ StorageIdle /\ TrainIdle /\ EvalIdle /\ AdapterIdle /\ LifeIdle
    /\ skip \in 0..MaxSkip
    /\ skip_pc = "idle" /\ skip_action = 0 /\ total_reward = 0
    /\ inner_steps = <<>> /\ skip_ret = [kind |-> "none"]

SkipNext == SkipStep \/ SkipInnerStep \/ SkipReturn

SkipSpec == SkipInit /\ [][SkipNext]_vars

TrainNext ==
    \/ TrainReset
    \/ TrainLoop
    \/ TrainTick
    \/ TrainReturns
    \/ TrainIrsAdd
    \/ TrainIrs
    \/ TrainIrsUpdate
    \/ TrainUpdate
    \/ TrainStorageUpdate
    \/ TrainCounters
    \/ TrainSave
    \/ TrainFinish
    \/ TrainClose

TrainSpec == TrainSpecInit /\ [][TrainNext]_vars

\* train runs on: every call it makes returns.
TrainFairSpec == TrainSpec /\ WF_vars(TrainNext)

\* ------------------------------------------------------------------ claims
\* The transitions stored, and the priority sample uses for a stored transition x:
\* the entry of the priority table at x's index in the deque.
Stored(dq) == {dq[k] : k \in 1..Len(dq)}
IndexOf(dq, x) == (CHOOSE k \in 1..Len(dq) : dq[k] = x) - 1
SampledPriority(dq, prios, x) == prios[IndexOf(dq, x)]

\* C1: right after add(), the priority sample uses for the just-inserted
\* transition is at least the priority it uses for every other stored transition
\* (and is 1 when the buffer was empty).
C1_NewestSampledAtMaxPriority ==
    call.op = "add" =>
        /\ \A x \in Stored(storage) :
              SampledPriority(storage, priorities, call.arg[1])
                  >= SampledPriority(storage, priorities, x)
        /\ (inserted = 1 => SampledPriority(storage, priorities, call.arg[1]) = 1)

\* C2: after more than storage_size add() calls, the transition sample reads at
\* index i is the most recent insertion whose ordinal is congruent to i modulo
\* storage_size.
C2_SlotHoldsCongruentInsertion ==
    inserted > storage_size =>
        \A i \in 0..(storage_size - 1) :
            /\ DequeAt(storage, i) % storage_size = i
            /\ DequeAt(storage, i) >= inserted - storage_size
            /\ DequeAt(storage, i) < inserted

\* C3: an add() leaves every transition that stays stored sampled under the
\* priority it was sampled under before: priority feedback written for a
\* transition stays attached to it until it is overwritten.
C3_PriorityStaysWithTransition ==
    [][call'.op = "add" /\ inserted' = inserted + 1 =>
          \A x \in Stored(storage) \cap Stored(storage') :
              SampledPriority(storage', priorities', x)
                  = SampledPriority(storage, priorities, x)]_vars

\* C4: sample on a non-empty buffer returns a weight vector whose weights are
\* all >= 0 and whose maximum is exactly 1.
C4_WeightsNormalized ==
    (call.op = "sample" /\ StorageLen > 0) =>
        /\ ret.kind = "ok"
        /\ \A k \in DOMAIN ret.weights :
              /\ FracLeq(Frac(0, 1), ret.weights[k])
              /\ FracLeq(ret.weights[k], Frac(1, 1))
        /\ \E k \in DOMAIN ret.weights : FracEq(ret.weights[k], Frac(1, 1))

\* Every weight vector sample does return is normalized as C4 says.
ReturnedWeightsNormalized ==
    (call.op = "sample" /\ ret.kind = "ok") =>
        /\ \A k \in DOMAIN ret.weights :
              /\ ret.weights[k].den > 0
              /\ FracLeq(Frac(0, 1), ret.weights[k])
              /\ FracLeq(ret.weights[k], Frac(1, 1))
        /\ \E k \in DOMAIN ret.weights : FracEq(ret.weights[k], Frac(1, 1))

\* C5: update(metrics) with both keys sets priorities[i] to the absolute value
\* of the last priority paired with i, for every listed index i, and changes
\* nothing else; without one of the keys it changes nothing.
C5_UpdateWritesAbsOfLastPair ==
    [][call'.op = "update" =>
          LET m == call'.arg[1]
              paired == {"indices", "priorities"} \subseteq m.keys
              places(i) == {k \in 1..Len(m.indices) : m.indices[k] = i}
              last(i) == CHOOSE k \in places(i) : \A j \in places(i) : j <= k
              magnitude(v) == IF v < 0 THEN 0 - v ELSE v
          IN /\ \A i \in 0..(storage_size - 1) :
                   priorities'[i] =
                       IF paired /\ places(i) # {}
                       THEN magnitude(m.priorities[last(i)])
                       ELSE priorities[i]
             /\ storage' = storage
             /\ Len(storage') = Len(storage)
             /\ position' = position]_vars

\* C5 witness: an update listing index 0 twice, the last time with a negative
\* priority, has left the magnitude of that last priority in priorities[0].
C5_Witness ==
    /\ call.op = "update"
    /\ call.arg[1].keys = {"indices", "priorities"}
    /\ call.arg[1].indices = <<0, 0>>
    /\ call.arg[1].priorities = <<1, -2>>
    /\ priorities[0] = 2
    /\ StorageLen = 2
    /\ priorities[1] = 1

\* C6: with every occupied slot at priority 0, sample still returns a batch
\* with finite weights.
C6_ZeroPrioritiesStillSampled ==
    (/\ call.op = "sample"
     /\ StorageLen > 0
     /\ \A i \in 0..(StorageLen - 1) : priorities[i] = 0) =>
        /\ ret.kind = "ok"
        /\ \A k \in DOMAIN ret.weights : ret.weights[k].den > 0

\* C7: sample on a storage holding no transition ends in an error, returns
\* nothing and leaves the storage, the priority table and the cursor unchanged.
C7_EmptySampleRejected ==
    [][(call'.op = "sample" /\ StorageLen = 0) =>
          /\ ret'.kind = "error"
          /\ storage' = storage
          /\ priorities' = priorities
          /\ position' = position]_vars

\* C7 witness: a sample call on an empty storage has ended in an error.
C7_Witness ==
    call.op = "sample" /\ StorageLen = 0 /\ inserted = 0 /\ ret.kind = "error"

\* The update cycles whose counter updates (lines 194-195) have been executed.
CyclesCounted == IF pc = "save" THEN update + 1 ELSE update

\* C8: from counters at zero, global_step is u * num_envs * num_steps and
\* global_episode is u * num_envs at the end of the u-th update cycle, and the
\* counters change at no other point: at every point of train they are those
\* of the cycles whose counter update has been executed.
C8_CountersFollowCycles ==
    pc # "idle" =>
        /\ global_step = CyclesCounted * num_envs * num_steps
        /\ global_episode = CyclesCounted * num_envs

\* C8 witness: train has finished two cycles of 2 environments and 2 steps.
C8_Witness ==
    /\ pc = "done" /\ update = 2 /\ num_envs = 2 /\ num_steps = 2
    /\ global_step = 8 /\ global_episode = 4

\* C9: train performs floor(floor(num_train_steps / num_envs) / num_steps)
\* cycles; the environment steps it collects never exceed num_train_steps and
\* fall short of it by less than num_envs * num_steps; a budget below one
\* segment gives no cycle and no environment step.
C9_StepBudget ==
    LET collected == env_steps * num_envs
        segment == num_envs * num_steps
    IN /\ collected <= num_train_steps
       /\ pc = "done" =>
             /\ update = (num_train_steps \div num_envs) \div num_steps
             /\ collected = update * segment
             /\ num_train_steps - collected < segment
             /\ (num_train_steps < segment => update = 0 /\ env_steps = 0)

\* C9 witness: a budget of 7 with 2 environments and 2 steps ends after one
\* cycle of 4 collected steps.
C9_Witness ==
    /\ pc = "done" /\ num_train_steps = 7 /\ num_envs = 2 /\ num_steps = 2
    /\ update = 1 /\ env_steps = 2

\* C10: the advantages and returns the policy update reads are, entry by entry,
\* those compute_returns_and_advantages produced plus the intrinsic rewards
\* compute_irs returned in this cycle, and exactly the former when no intrinsic
\* reward module is attached.
C10_UpdateReadsComputedPlusIntrinsic ==
    pc = "policy_update" =>
        \A t \in 1..num_steps : \A e \in 1..num_envs :
            LET bonus == IF has_irs THEN intrinsic_rewards[t][e] ELSE 0
            IN /\ advantages[t][e] = computed.advantages[t][e] + bonus
               /\ returns[t][e] = computed.returns[t][e] + bonus

\* C10 witness: in the second cycle, with a module attached, an entry of value
\* 2 raised by an intrinsic reward of 2 is what the policy update reads.
C10_Witness ==
    /\ pc = "policy_update" /\ has_irs /\ update = 1
    /\ num_steps = 2 /\ num_envs = 2
    /\ computed.advantages[2][1] = 2
    /\ intrinsic_rewards[2][1] = 2
    /\ intrinsic_rewards[1][1] = 1
    /\ advantages[2][1] = 4
    /\ returns[2][1] = computed.returns[2][1] + 2

\* The smaller of two numbers.
Min(a, b) == IF a < b THEN a ELSE b

\* C15: in every state reached by add, sample and update calls (update with
\* signed priorities), every occupied slot i has an entry priorities[i], and
\* that entry is a number >= 0.
C15_OccupiedPrioritiesNonNegative ==
    \A i \in 0..(StorageLen - 1) :
        /\ i \in DOMAIN priorities
        /\ priorities[i] \in Nat

\* C15 witness: update has been handed the negative priority -2 for a stored
\* transition of a full storage, and the table holds 2 in that slot.
C15_Witness ==
    /\ call.op = "update"
    /\ call.arg[1].priorities = <<-2>>
    /\ call.arg[1].indices = <<1>>
    /\ StorageLen = storage_size
    /\ inserted > storage_size
    /\ priorities[1] = 2

\* The ordinals of the k most recent of n insertions.
MostRecent(n, k) == {x \in 0..(n - 1) : x >= n - k}

\* C16: add never fails; after n add() calls, whatever sample and update calls
\* came between, the stored transitions are exactly the min(n, storage_size)
\* most recently inserted ones; an add on a full storage evicts the oldest
\* stored transition and no other.
C16_KeepsMostRecent ==
    /\ [](/\ (call.op = "add" => ret.kind = "ok")
          /\ Stored(storage) = MostRecent(inserted, Min(inserted, storage_size))
          /\ Len(storage) = Cardinality(Stored(storage)))
    /\ [][(call'.op = "add" /\ inserted' = inserted + 1) =>
             /\ inserted \in Stored(storage')
             /\ IF Len(storage) = storage_size
                THEN Stored(storage) \ Stored(storage') = {inserted - storage_size}
                ELSE Stored(storage) \subseteq Stored(storage')]_vars

\* C16 witness: a storage of capacity 2 after 5 add() calls, the last one made
\* after a priority update, holds the insertions 3 and 4.
C16_Witness ==
    /\ storage_size = 2 /\ inserted = 5 /\ call.op = "add"
    /\ storage = <<3, 4>>
    /\ priorities[0] = 2

\* C17: the size is min(n, storage_size) and the cursor is n mod storage_size,
\* inside [0, storage_size), after n add() calls; no call decreases the size,
\* sample and update change neither size nor cursor, and a full storage stays
\* full.
C17_EmptyFillingFull ==
    /\ [](/\ StorageLen = Min(inserted, storage_size)
          /\ position = inserted % storage_size
          /\ position \in 0..(storage_size - 1))
    /\ [][/\ Len(storage') >= Len(storage)
          /\ (call'.op \in {"sample", "update"} =>
                 Len(storage') = Len(storage) /\ position' = position)
          /\ (Len(storage) = storage_size => Len(storage') = storage_size)]_vars

\* C17 witness: a storage of capacity 3 that was filling after 2 adds is full
\* after 4, the cursor having wrapped around to 1.
C17_Witness ==
    /\ storage_size = 3 /\ inserted = 4 /\ StorageLen = 3 /\ position = 1
    /\ call.op = "add"

\* C18: a sample call, whatever its step argument, leaves the priority table,
\* the stored transitions, the size and the cursor as they were; only add and
\* update change any of them.
C18_SampleReadsOnly ==
    [][/\ call'.op = "sample" =>
             /\ priorities' = priorities
             /\ storage' = storage
             /\ Len(storage') = Len(storage)
             /\ position' = position
       /\ (priorities' # priorities \/ storage' # storage \/ position' # position)
             => call'.op \in {"add", "update"}]_vars

\* C18 witness: a sample with alpha = 2 and step = storage_size has returned a
\* batch from a full storage whose table holds a priority 2 beside a 1.
C18_Witness ==
    /\ call.op = "sample" /\ ret.kind = "ok" /\ alpha = 2
    /\ call.arg[1] = storage_size
    /\ StorageLen = storage_size /\ storage_size = 2
    /\ priorities[0] = 2 /\ priorities[1] = 1

\* C14: for beta in [0, 1], annealing_beta(0) is beta, annealing_beta never
\* exceeds 1, it is exactly 1 for every step >= storage_size, and a call with
\* a larger step never returns less than a call with a smaller one.
C14_AnnealingBetaSaturates ==
    /\ [](call.op = "annealing_beta" =>
             /\ (call.arg[1] = 0 => FracEq(ret.value, beta))
             /\ FracLeq(ret.value, Frac(1, 1))
             /\ (call.arg[1] >= storage_size => FracEq(ret.value, Frac(1, 1))))
    /\ [][(/\ call.op = "annealing_beta" /\ call'.op = "annealing_beta"
           /\ call.arg[1] <= call'.arg[1])
             => FracLeq(ret.value, ret'.value)]_vars

\* What does hold of annealing_beta: it starts at beta, is non-decreasing,
\* never exceeds 1, and is exactly 1 from step 2 * storage_size on.
AnnealingBetaMonotoneBounded ==
    /\ [](call.op = "annealing_beta" =>
             /\ (call.arg[1] = 0 => FracEq(ret.value, beta))
             /\ FracLeq(ret.value, Frac(1, 1))
             /\ (call.arg[1] >= 2 * storage_size => FracEq(ret.value, Frac(1, 1))))
    /\ [][(/\ call.op = "annealing_beta" /\ call'.op = "annealing_beta"
           /\ call.arg[1] <= call'.arg[1])
             => FracLeq(ret.value, ret'.value)]_vars

\* The calls of one complete update cycle, in order: num_steps times env.step
\* followed by storage.add, then compute_returns_and_advantages, update() and
\* storage.update().
CycleCalls ==
    [k \in 1..(2 * num_steps) |-> IF k % 2 = 1 THEN "step" ELSE "add"]
        \o <<"returns", "update", "storage_update">>

IsPrefix(a, b) == Len(a) <= Len(b) /\ \A k \in 1..Len(a) : a[k] = b[k]

\* C11: the calls of every update cycle are num_steps times (env.step, then
\* one storage.add of the transition just stepped to), then one
\* compute_returns_and_advantages, then update(), then one storage.update():
\* at every point the cycle's calls so far are a prefix of that sequence, and
\* they are the whole sequence from the end of storage.update() until the first
\* env.step of the next cycle.
C11_CycleCallOrder ==
    /\ IsPrefix(events, CycleCalls)
    /\ (pc \in {"counters", "save"} => events = CycleCalls)
    /\ ((update > 0 /\ (pc \in {"loop", "final_save", "close", "done"}
                        \/ (pc = "rollout" /\ tick = 0)))
            => events = CycleCalls)
    /\ (pc = "rollout" /\ tick > 0 => Len(events) = 2 * tick)
    /\ (pc \in {"rollout", "irs", "irs_compute", "irs_update", "policy_update",
                "storage_update"} =>
            /\ Len(rollout) = tick
            /\ env_steps = update * num_steps + tick
            /\ \A k \in 1..Len(rollout) :
                  /\ rollout[k].next_obs = update * num_steps + k
                  /\ rollout[k].obs = rollout[k].next_obs - 1)
    /\ (pc \in {"irs", "irs_compute", "irs_update", "policy_update"} =>
            Len(events) = 2 * num_steps + 1)
    /\ (pc = "storage_update" => Len(events) = 2 * num_steps + 2)

\* C11 witness: the second cycle of a train with num_steps = 2 and an intrinsic
\* reward module has made all its calls.
C11_Witness ==
    /\ pc = "save" /\ update = 1 /\ num_steps = 2 /\ has_irs
    /\ events = <<"step", "add", "step", "add", "returns", "update", "storage_update">>
    /\ env_steps = 4

\* The saves of line 213 in a train of num_updates cycles.
PeriodicSaves == Cardinality({u \in 0..(num_updates - 1) : u % save_interval = 0})

\* C19: train reaches its end; it has then run all its cycles, made the final
\* save after them, and closed the training environment and, if there is one,
\* the evaluation environment; the close comes after the final save, and after
\* it no env.step, env.reset, eval or save happens.  The trains of 0 cycles are
\* among those checked.
C19_TrainFinishesSavesCloses ==
    /\ <>(pc = "done")
    /\ [](pc = "done" =>
             /\ update = num_updates
             /\ num_updates = (num_train_steps \div num_envs) \div num_steps
             /\ saves = PeriodicSaves + 1
             /\ env_closed
             /\ eval_env_closed = has_eval_env)
    /\ [][(~env_closed /\ env_closed') =>
             /\ update = num_updates
             /\ saves = PeriodicSaves + 1
             /\ saves' = saves]_vars
    /\ [][(saves' # saves /\ saves' = PeriodicSaves + 1) =>
             update = num_updates /\ ~env_closed]_vars
    /\ [][env_closed =>
             /\ env_steps' = env_steps
             /\ env_resets' = env_resets
             /\ saves' = saves
             /\ evals' = evals]_vars

\* C19 witness: a train of two cycles with an evaluation environment has ended
\* with both environments closed, after two periodic saves and the final one.
C19_Witness ==
    /\ pc = "done" /\ num_updates = 2 /\ update = 2 /\ has_eval_env
    /\ save_interval = 1 /\ saves = 3
    /\ env_closed /\ eval_env_closed /\ env_resets = 1

\* C20: every reward handed to storage.add is zero when the agent is
\* pretraining, and is the reward env.step returned when it is not.
C20_PretrainingZeroesRewards ==
    \A k \in 1..Len(rollout) :
        rollout[k].rews = IF pretraining THEN 0 ELSE rollout[k].env_rews

\* C20 witness: a pretraining agent whose environment returned the reward 1
\* has handed 0 to storage.add.
C20_Witness ==
    /\ pretraining /\ Len(rollout) = 2
    /\ rollout[2].env_rews = 1 /\ rollout[2].rews = 0
    /\ rollout[1].env_rews = 0

\* C12: on an agent without evaluation environment, eval ends in an error, with
\* no eval_env.reset and no eval_env.step made, and no step of it changes
\* global_step, global_episode or the training environment; after the error
\* nothing more happens: the call is not made again.
C12_EvalWithoutEnvFails ==
    /\ [](~has_eval_env =>
             /\ eval_pc \in {"idle", "called", "error"}
             /\ eval_resets = 0 /\ eval_env_steps = 0
             /\ (eval_pc = "error" <=> eval_ret.kind = "error")
             /\ (eval_pc # "error" => eval_ret = NoRet))
    /\ [][~has_eval_env =>
             /\ global_step' = global_step
             /\ global_episode' = global_episode
             /\ env_steps' = env_steps /\ env_resets' = env_resets
             /\ env_closed' = env_closed /\ obs' = obs /\ next_obs' = next_obs
             /\ eval_pc # "error"]_vars

\* C12 witness: eval on a trained agent without evaluation environment has ended
\* in an error.
C12_Witness ==
    /\ ~has_eval_env /\ eval_pc = "error" /\ eval_ret.kind = "error"
    /\ global_step = MaxEnvs * MaxSteps /\ eval_resets = 0

\* C13: the statistics eval returns are means over exactly num_eval_episodes
\* completed episodes.
C13_ExactlyRequestedEpisodes ==
    eval_pc = "returned" =>
        /\ Len(episode_rewards) = num_eval_episodes
        /\ Len(episode_steps) = num_eval_episodes
        /\ eval_ret.episode_reward = Mean(episode_rewards)
        /\ eval_ret.episode_length = Mean(episode_steps)

\* What does hold of eval: the statistics are means over all the episodes that
\* ended up to and including the step on which the num_eval_episodes-th ended:
\* at least num_eval_episodes, fewer than num_eval_episodes + num_eval_envs.
EvalAggregatesAtLeastRequested ==
    eval_pc = "returned" =>
        /\ Len(episode_rewards) >= num_eval_episodes
        /\ Len(episode_rewards) < num_eval_episodes + num_eval_envs
        /\ Len(episode_steps) = Len(episode_rewards)
        /\ eval_ret.episode_reward = Mean(episode_rewards)
        /\ eval_ret.episode_length = Mean(episode_steps)

\* The cycles among the first n (0 .. n-1) that are multiples of eval_interval.
EvalCycles(n) == {u \in 0..(n - 1) : u % eval_interval = 0}

\* C21: eval is called at the start of cycle u, before the cycle's first
\* env.step, exactly when u is a multiple of eval_interval and there is an
\* evaluation environment, and nowhere else in train; without an evaluation
\* environment train never calls eval.
C21_EvalAtCycleStart ==
    /\ [](/\ (~has_eval_env => evals = 0)
          /\ (has_eval_env /\ pc \notin {"idle", "reset", "loop"} =>
                 evals = Cardinality(EvalCycles(IF pc \in {"final_save", "close", "done"}
                                                THEN update ELSE update + 1))))
    /\ [][/\ (pc = "loop" /\ pc' = "rollout" =>
                 /\ (evals' = evals + 1 <=>
                        (update % eval_interval = 0 /\ has_eval_env))
                 /\ evals' \in {evals, evals + 1}
                 /\ env_steps' = env_steps /\ tick' = 0)
          /\ (evals' # evals => pc = "loop" /\ pc' = "rollout")]_vars

\* C21 witness: with eval_interval = 2 and an evaluation environment the third
\* cycle starts after two evals: those of cycles 0 and 2, none in cycle 1.
C21_Witness ==
    /\ pc = "rollout" /\ tick = 0 /\ update = 2 /\ eval_interval = 2
    /\ has_eval_env /\ evals = 2

\* C27: the training environment is reset once; the observation the policy
\* sees and storage.add stores at a tick is the one the preceding env.step
\* returned (observations are numbered by the env.step calls before them, the
\* reset observation being 0), also at the first tick of a later cycle; the
\* bootstrap value of a cycle is taken of the observation its last env.step
\* returned.
C27_ObservationsContinuous ==
    /\ (pc \notin {"idle", "reset"} => env_resets = 1 /\ obs = env_steps)
    /\ (pc \in {"idle", "reset"} => env_resets = 0)
    /\ \A k \in 1..Len(rollout) :
          /\ rollout[k].obs = update * num_steps + k - 1
          /\ rollout[k].next_obs = rollout[k].obs + 1
    /\ (pc \in {"irs", "irs_compute", "irs_update", "policy_update", "storage_update"} =>
           /\ computed.bootstrap = (update + 1) * num_steps
           /\ computed.bootstrap = rollout[Len(rollout)].next_obs
           /\ computed.bootstrap = env_steps)

\* C27 witness: in the second cycle of a train with num_steps = 2 the first
\* tick stored observation 2, the one the last env.step of the first cycle
\* returned, and the bootstrap value was taken of observation 4.
C27_Witness ==
    /\ pc = "policy_update" /\ update = 1 /\ num_steps = 2
    /\ rollout[1].obs = 2 /\ rollout[2].next_obs = 4
    /\ computed.bootstrap = 4 /\ env_resets = 1

\* The calls an attached intrinsic reward module gets in one cycle, with the
\* in-place addition between compute_irs and update.
IrsCallOrder == <<"add", "compute_irs", "inject", "update">>

\* The segment of cycle u: the observations before and after each of its
\* num_steps env.step calls, and the actions chosen for the former.
SegmentOf(u) ==
    [obs |-> [j \in 1..num_steps |-> u * num_steps + j - 1],
     actions |-> [j \in 1..num_steps |-> u * num_steps + j - 1],
     next_obs |-> [j \in 1..num_steps |-> u * num_steps + j]]

\* C24: with a module attached, a cycle calls irs.add, irs.compute_irs, the
\* in-place addition and irs.update in this order, each once, after
\* compute_returns_and_advantages and before update(); the three module calls
\* get the cycle's segment; without a module none of them is called.
C24_IrsCallOrder ==
    /\ (~has_irs => irs_calls = <<>>)
    /\ IsPrefix([k \in 1..Len(irs_calls) |-> irs_calls[k].op], IrsCallOrder)
    /\ (pc = "irs" => irs_calls = <<>>)
    /\ (pc \in {"irs", "irs_compute", "irs_update", "policy_update"} =>
           events[Len(events)] = "returns")
    /\ (has_irs /\ pc \in {"policy_update", "storage_update", "counters", "save"} =>
           /\ Len(irs_calls) = 4
           /\ advantages = AddedInPlace(computed.advantages, intrinsic_rewards)
           /\ returns = AddedInPlace(computed.returns, intrinsic_rewards))
    /\ (pc \in {"irs_compute", "irs_update", "policy_update", "storage_update"} =>
           \A k \in 1..Len(irs_calls) :
               irs_calls[k].op # "inject" => irs_calls[k].samples = SegmentOf(update))

\* C24 witness: the second cycle of a train with num_steps = 2 and a module
\* attached has made the four calls on the segment of observations 2, 3, 4.
C24_Witness ==
    /\ pc = "policy_update" /\ has_irs /\ update = 1 /\ num_steps = 2
    /\ Len(irs_calls) = 4
    /\ irs_calls[1].op = "add" /\ irs_calls[4].op = "update"
    /\ irs_calls[2].samples.obs = <<2, 3>>
    /\ irs_calls[4].samples.next_obs = <<3, 4>>

\* C25: the step argument of compute_irs in cycle u is global_step at that
\* moment, u * num_envs * num_steps.
C25_IrsStepIsGlobalStep ==
    pc \in {"irs_update", "policy_update", "storage_update"} =>
        \A k \in 1..Len(irs_calls) :
            irs_calls[k].op = "compute_irs" =>
                /\ irs_calls[k].step = global_step
                /\ irs_calls[k].step = update * num_envs * num_steps

\* What does hold of the step argument: it is global_step times num_envs.
IrsStepScaledByEnvs ==
    pc \in {"irs_update", "policy_update", "storage_update"} =>
        \A k \in 1..Len(irs_calls) :
            irs_calls[k].op = "compute_irs" =>
                irs_calls[k].step = global_step * num_envs

\* C22: reset returns the pair (observation, info) and step returns the five
\* components (observation after the step, reward, terminated, truncated,
\* info), so that the loop's destructuring of either succeeds, and after a
\* step binds next_obs to the observation after the step.
C22_AdapterHonoursContract ==
    /\ (time_step.op = "reset" =>
           /\ time_step.ret = <<time_step.obs, time_step.info>>
           /\ bound.kind = "ok"
           /\ bound.values[1] = time_step.obs)
    /\ (time_step.op = "step" =>
           /\ time_step.ret = <<time_step.obs, time_step.reward, time_step.terminated,
                                time_step.truncated, time_step.info>>
           /\ bound.kind = "ok"
           /\ bound.values[1] = time_step.obs)

\* What does hold of the adapter: both calls return the seven fields of a
\* TimeStep, with the observation before the step first and the observation
\* after it last, and the loop's destructuring raises ValueError.
AdapterReturnsSevenFields ==
    time_step.op \in {"reset", "step"} =>
        /\ Len(time_step.ret) = 7
        /\ bound.kind = "ValueError"
        /\ (time_step.op = "step" =>
               /\ time_step.ret[7] = time_step.obs
               /\ time_step.ret[1] = time_step.obs - 1)

\* C23: a reset() issued after a step whose termination was only a life loss
\* (the wrapped game reported neither terminated nor truncated) does not reset
\* the wrapped game, while a reset() after a real termination or truncation
\* does.
C23_ResetOnlyOnGameOver ==
    [][(life_ret.op = "step" /\ life_ret'.op = "reset") =>
          /\ ((life_ret.terminated /\ ~ life_ret.inner_done) =>
                 inner_resets' = inner_resets)
          /\ (life_ret.inner_done => inner_resets' = inner_resets + 1)]_vars

\* What does hold: was_real_done records the wrapped game's own flags, and
\* every reset() resets the wrapped game, whatever was_real_done is.
WasRealDoneRecorded ==
    life_ret.op = "step" => (was_real_done <=> life_ret.inner_done)

LifeResetAlwaysResets ==
    [][life_ret'.op = "reset" => inner_resets' = inner_resets + 1]_vars

\* The rewards of the inner steps, in order.
InnerRewards == [i \in 1..Len(inner_steps) |-> inner_steps[i].reward]

\* C26: SkipFrame.step with skip >= 1 repeats the same action at most skip
\* times, makes no inner step after one that reported terminated or
\* truncated, stops only then or after skip steps, and returns the sum of the
\* rewards of the inner steps it made with the observation, flags and info of
\* the last of them.
C26_SkipFrameStep ==
    LET n == Len(inner_steps)
        Done(i) == inner_steps[i].terminated \/ inner_steps[i].truncated
    IN skip >= 1 =>
       /\ n <= skip
       /\ \A i \in 1..n : inner_steps[i].action = skip_action
       /\ \A i \in 1..(n - 1) : ~ Done(i)
       /\ (skip_pc = "returned" =>
              /\ n >= 1
              /\ (n = skip \/ Done(n))
              /\ skip_ret.kind = "ok"
              /\ skip_ret.reward = SeqSum(InnerRewards)
              /\ skip_ret.obs = inner_steps[n].obs
              /\ skip_ret.terminated = inner_steps[n].terminated
              /\ skip_ret.truncated = inner_steps[n].truncated
              /\ skip_ret.info = inner_steps[n].info)

\* step has returned early: a truncated inner step before the skip-th, after
\* a rewarded one.
C26_Witness ==
    /\ skip_pc = "returned"
    /\ Len(inner_steps) = 2 /\ skip = 3
    /\ inner_steps[2].truncated /\ ~ inner_steps[2].terminated
    /\ skip_ret.reward = 2

====
